---- MODULE Spec2Model ----
(***************************************************************************)
(* bevy_polyline: the per-entity GPU buffer lifecycle                      *)
(* (poly_line_resource_provider_system) and the per-frame pipeline         *)
(* specialization and draw submission                                      *)
(* (poly_line_draw_render_pipelines_system) of src/lib.rs, as a state      *)
(* machine over frames.  A frame is: application updates (spawn, despawn,  *)
(* mutate vertices, visibility, sample count, bindings), then the          *)
(* RenderResource stage, then the Draw stage, then the end of the frame.   *)
(***************************************************************************)
EXTENDS Integers, Sequences, FiniteSets, TLC

\* ---------------------------------------------------------------- bounds
MaxEntities == 2
MaxLen == 3
MaxBuffers == 2
MaxGen == 2

\* ------------------------------------------------------------- constants
\* size of one f32 coordinate in bytes
SizeOfF32 == 4
\* size_of::<Vec3>(): three f32
SizeOfVec3 == 3 * SizeOfF32
\* machine integers are kept as big-endian sequences of 16-bit limbs:
\* a usize (64-bit target) has four limbs, a u32 has two
LimbModulus == 2 ^ 16
UsizeLimbs == 4
U32Limbs == 2
\* RenderPipeline::new leaves the cached generation at a value no binding
\* set has yet (the pipeline has never been specialized)
NeverSpecialized == 0 - 1
\* PipelineSpecialization::default().sample_count
DefaultSampleCount == 1

Entities == 1 .. MaxEntities
None == 0

\* f32 bit patterns of 0.0 and 1.0
F32Zero == 0
F32One == 127 * 2 ^ 23
PointA == << F32Zero, F32Zero, F32Zero >>
PointB == << F32One, F32Zero, F32One >>

\* n points, alternating between two values
Alternating(first, second, n) == [i \in 1 .. n |-> IF i % 2 = 1 THEN first ELSE second]
\* the point lists the application sets: one of every length up to MaxLen,
\* and a second content for the longest
PointLists ==
    { Alternating(PointA, PointB, n) : n \in 0 .. MaxLen }
        \cup { Alternating(PointB, PointA, MaxLen) }

MsaaSamples == { 1, 4 }
\* names of dynamic bindings: one the record's own binding set can hold,
\* one an asset's binding set can hold
RecordNames == { "Transform" }
AssetNames == { "Material" }
Assets == { "asset" }

\* ------------------------------------------------------ pure conversions
\* the four bytes of a 32-bit word in memory order (little-endian target)
WordBytes(w) ==
    << w % 256, (w \div 256) % 256, (w \div 65536) % 256, (w \div 16777216) % 256 >>
\* the twelve bytes of one Vec3
Vec3Bytes(p) == WordBytes(p[1]) \o WordBytes(p[2]) \o WordBytes(p[3])

\* Vec<Vec3>::as_bytes: the elements' bytes, in order
RECURSIVE as_bytes(_)
as_bytes(vs) ==
    IF vs = <<>> THEN <<>>
    ELSE Vec3Bytes(Head(vs)) \o as_bytes(Tail(vs))

\* byte_len counting four bytes per point instead of twelve
byte_len_PerFloat(vs) == Len(vs) * SizeOfF32

\* Vec<Vec3>::byte_len
byte_len(vs) == Len(vs) * SizeOfVec3

\* a small natural number as a usize
ToUsize(n) == [i \in 1 .. UsizeLimbs |-> IF i = UsizeLimbs THEN n ELSE 0]
\* a small natural number as a u32
ToU32(n) == [i \in 1 .. U32Limbs |-> IF i = U32Limbs THEN n ELSE 0]
\* u - 1 on usize with wrap-around: the borrow runs through the low zero limbs
WrappingSubOne(u) ==
    LET nonzero == { i \in 1 .. UsizeLimbs : u[i] # 0 }
        IsMax(S, i) == i \in S /\ \A j \in S : j <= i
        top == IF nonzero = {} THEN 0 ELSE CHOOSE i \in nonzero : IsMax(nonzero, i)
    IN [i \in 1 .. UsizeLimbs |->
           IF i < top THEN u[i]
           ELSE IF i = top THEN u[i] - 1
           ELSE LimbModulus - 1]
\* `as u32`: the low 32 bits
AsU32(u) == [i \in 1 .. U32Limbs |-> u[i + UsizeLimbs - U32Limbs]]
\* usize subtraction u - 1 underflows
SubOneUnderflows(u) == \A i \in 1 .. UsizeLimbs : u[i] = 0
\* the instance range ending at len() instead of len() - 1
InstanceEnd_NoSubtract(vs) == AsU32(ToUsize(Len(vs)))

\* (poly_line.vertices.len() - 1) as u32, when the subtraction does not trap
InstanceEnd(vs) == AsU32(WrappingSubOne(ToUsize(Len(vs))))
\* ------------------------------------------------------------------ state
VARIABLES
    phase,          \* position in the frame: "update", "draw", "end", or "crashed"
    status,         \* per entity: "unspawned", "live" or "despawned"
    vertices,       \* PolyLine.vertices of each entity
    changed,        \* Changed<PolyLine> as seen by the resource provider
    visible,        \* Visible.is_visible
    outside_frustum, \* the entity carries the OutsideFrustum marker
    bindings,       \* RenderPipelines.bindings of each entity
    pipelines,      \* RenderPipelines.pipelines of each entity
    msaa,           \* Msaa.samples
    asset_bindings, \* draw_context.asset_render_resource_bindings
    buffers,        \* the render resource context's buffers, indexed by BufferId
    calls,          \* buffer calls made on the render resource context this frame
    draw,           \* Draw.render_commands of each entity this frame
    cache           \* per entity, the outcome of this frame's generation check

vars == << phase, status, vertices, changed, visible, outside_frustum, bindings, pipelines, msaa,
           asset_bindings, buffers, calls, draw, cache >>

\* RenderResourceBindings::default() plus the assets added before spawning
NewBindings(assets) ==
    [ vertex_attribute_buffer |-> None,
      dynamic |-> {},
      dynamic_bindings_generation |-> 0,
      assets |-> assets ]

\* VertexBufferLayout::default()
DefaultLayout == [ name |-> "", stride |-> 0, step_mode |-> "Vertex", attributes |-> <<>> ]

\* the layout the draw system writes into every specialization
PolyLineLayout ==
    [ name |-> "PolyLine",
      stride |-> 12,
      step_mode |-> "Instance",
      attributes |-> << [ name |-> "Instance_Point0", offset |-> 0, shader_location |-> 0 ],
                        [ name |-> "Instance_Point1", offset |-> 12, shader_location |-> 1 ] >> ]

\* RenderPipelines::from_handles(vec![&POLY_LINE_PIPELINE_HANDLE.typed()]).pipelines
NewPipelines ==
    << [ sample_count |-> DefaultSampleCount,
         vertex_buffer_layout |-> DefaultLayout,
         dynamic_bindings |-> {},
         dynamic_bindings_generation |-> NeverSpecialized ] >>

Init ==
    /\ phase = "update"
    /\ status = [e \in Entities |-> "unspawned"]
    /\ vertices = [e \in Entities |-> <<>>]
    /\ changed = [e \in Entities |-> FALSE]
    /\ visible = [e \in Entities |-> TRUE]
    /\ outside_frustum = [e \in Entities |-> FALSE]
    /\ bindings = [e \in Entities |-> NewBindings({})]
    /\ pipelines = [e \in Entities |-> NewPipelines]
    /\ msaa \in MsaaSamples
    /\ asset_bindings = [a \in Assets |-> {}]
    /\ buffers = <<>>
    /\ calls = <<>>
    /\ draw = [e \in Entities |-> <<>>]
    /\ cache = [e \in Entities |-> "none"]

\* a panic in a system aborts the application: its world, its GPU resources
\* and its command lists are gone
Abort ==
    /\ phase' = "crashed"
    /\ status' = [e \in Entities |-> "despawned"]
    /\ vertices' = [e \in Entities |-> <<>>]
    /\ changed' = [e \in Entities |-> FALSE]
    /\ visible' = [e \in Entities |-> TRUE]
    /\ outside_frustum' = [e \in Entities |-> FALSE]
    /\ bindings' = [e \in Entities |-> NewBindings({})]
    /\ pipelines' = [e \in Entities |-> NewPipelines]
    /\ msaa' = DefaultSampleCount
    /\ asset_bindings' = [a \in Assets |-> {}]
    /\ buffers' = <<>>
    /\ calls' = <<>>
    /\ draw' = [e \in Entities |-> <<>>]
    /\ cache' = [e \in Entities |-> "none"]

Live == { e \in Entities : status[e] = "live" }

\* every pending change costs one buffer: keep the buffer ids bounded
CanFlag(e) == changed[e] \/ Len(buffers) + Cardinality({ x \in Live : changed[x] }) < MaxBuffers

\* ------------------------------------------------- application (update)
\* commands.spawn_bundle(PolyLineBundle { poly_line, render_pipelines, .. })
Spawn(e, vs, assets) ==
    /\ phase = "update"
    /\ status[e] = "unspawned"
    /\ \A x \in Entities : x < e => status[x] # "unspawned"
    /\ CanFlag(e)
    /\ status' = [status EXCEPT ![e] = "live"]
    /\ vertices' = [vertices EXCEPT ![e] = vs]
    /\ changed' = [changed EXCEPT ![e] = TRUE]
    /\ visible' = [visible EXCEPT ![e] = TRUE]
    /\ bindings' = [bindings EXCEPT ![e] = NewBindings(assets)]
    /\ pipelines' = [pipelines EXCEPT ![e] = NewPipelines]
    /\ UNCHANGED << outside_frustum, phase, msaa, asset_bindings, buffers, calls, draw, cache >>

\* commands.entity(e).despawn(): the components are dropped; no system of the
\* plugin observes the removal
Despawn(e) ==
    /\ phase = "update"
    /\ status[e] = "live"
    /\ status' = [status EXCEPT ![e] = "despawned"]
    /\ vertices' = [vertices EXCEPT ![e] = <<>>]
    /\ changed' = [changed EXCEPT ![e] = FALSE]
    /\ visible' = [visible EXCEPT ![e] = TRUE]
    /\ bindings' = [bindings EXCEPT ![e] = NewBindings({})]
    /\ pipelines' = [pipelines EXCEPT ![e] = NewPipelines]
    /\ UNCHANGED << outside_frustum, phase, msaa, asset_bindings, buffers, calls, draw, cache >>

\* poly_line.vertices = vs through a mutable borrow: flags the component
SetVertices(e, vs) ==
    /\ phase = "update"
    /\ status[e] = "live"
    /\ CanFlag(e)
    /\ vertices' = [vertices EXCEPT ![e] = vs]
    /\ changed' = [changed EXCEPT ![e] = TRUE]
    /\ UNCHANGED << outside_frustum, phase, status, visible, bindings, pipelines, msaa,
                    asset_bindings, buffers, calls, draw, cache >>

\* visible.is_visible = b
SetVisible(e, b) ==
    /\ phase = "update"
    /\ status[e] = "live"
    /\ visible[e] # b
    /\ visible' = [visible EXCEPT ![e] = b]
    /\ UNCHANGED << outside_frustum, phase, status, vertices, changed, bindings, pipelines, msaa,
                    asset_bindings, buffers, calls, draw, cache >>

\* the culling system adds or removes the OutsideFrustum marker
SetOutsideFrustum(e, b) ==
    /\ phase = "update"
    /\ status[e] = "live"
    /\ outside_frustum[e] # b
    /\ outside_frustum' = [outside_frustum EXCEPT ![e] = b]
    /\ UNCHANGED << phase, status, vertices, changed, visible, bindings, pipelines, msaa,
                    asset_bindings, buffers, calls, draw, cache >>

\* a system that runs between the RenderResource and the Draw stage spawns a
\* poly-line: the resource provider has already run this frame
SpawnLate(e, vs) ==
    /\ phase = "draw"
    /\ status[e] = "unspawned"
    /\ \A x \in Entities : x < e => status[x] # "unspawned"
    /\ CanFlag(e)
    /\ status' = [status EXCEPT ![e] = "live"]
    /\ vertices' = [vertices EXCEPT ![e] = vs]
    /\ changed' = [changed EXCEPT ![e] = TRUE]
    /\ visible' = [visible EXCEPT ![e] = TRUE]
    /\ bindings' = [bindings EXCEPT ![e] = NewBindings({})]
    /\ pipelines' = [pipelines EXCEPT ![e] = NewPipelines]
    /\ UNCHANGED << outside_frustum, phase, msaa, asset_bindings, buffers, calls, draw, cache >>

\* msaa.samples = s
SetMsaa(s) ==
    /\ phase = "update"
    /\ msaa # s
    /\ msaa' = s
    /\ UNCHANGED << outside_frustum, phase, status, vertices, changed, visible, bindings, pipelines,
                    asset_bindings, buffers, calls, draw, cache >>

\* a dynamic binding of the record's own binding set changes: the set's
\* generation advances
SetBinding(e, names) ==
    /\ phase = "update"
    /\ status[e] = "live"
    /\ bindings[e].dynamic_bindings_generation < MaxGen
    /\ bindings' = [bindings EXCEPT
           ![e].dynamic = names,
           ![e].dynamic_bindings_generation = @ + 1]
    /\ UNCHANGED << outside_frustum, phase, status, vertices, changed, visible, pipelines, msaa,
                    asset_bindings, buffers, calls, draw, cache >>

\* a dynamic binding of an asset's binding set changes: that set is another
\* object than any record's binding set
SetAssetBinding(a, names) ==
    /\ phase = "update"
    /\ asset_bindings[a] # names
    /\ asset_bindings' = [asset_bindings EXCEPT ![a] = names]
    /\ UNCHANGED << outside_frustum, phase, status, vertices, changed, visible, bindings, pipelines,
                    msaa, buffers, calls, draw, cache >>
\* ------------------------------------------------ render resource context
\* RenderResourceContext::remove_buffer
remove_buffer(bufs, id) ==
    [bufs EXCEPT ![id] = [ live |-> FALSE, size |-> 0, data |-> <<>>, owner |-> @.owner ]]

\* RenderResourceContext::create_buffer_with_data: the new buffer gets the
\* next unused BufferId; owner records the entity the call was made for
create_buffer_with_data(bufs, size, data, owner) ==
    Append(bufs, [ live |-> TRUE, size |-> size, data |-> data, owner |-> owner ])

\* the entities of a set in query iteration order
RECURSIVE InOrder(_)
InOrder(S) ==
    IF S = {} THEN <<>>
    ELSE LET m == CHOOSE x \in S : \A y \in S : x <= y
         IN << m >> \o InOrder(S \ { m })

\* ------------------------------------------------- RenderResource stage
\* the closure body requesting the new buffer before releasing the old one
ProviderBody_CreateFirst(e, st) ==
    LET old == st.bindings[e].vertex_attribute_buffer
        buffer_id == Len(st.buffers) + 1
        created ==
            [st EXCEPT
                !.buffers = create_buffer_with_data(@, byte_len(vertices[e]), as_bytes(vertices[e]), e),
                !.calls = Append(@, [ op |-> "create_buffer_with_data", id |-> buffer_id, entity |-> e ])]
        removed ==
            IF old # None
            THEN [created EXCEPT !.buffers = remove_buffer(@, old),
                                 !.calls = Append(@, [ op |-> "remove_buffer", id |-> old, entity |-> e ])]
            ELSE created
    IN [removed EXCEPT !.bindings[e].vertex_attribute_buffer = buffer_id]

\* the closure body never releasing the previous buffer
ProviderBody_NoRemove(e, st) ==
    LET buffer_id == Len(st.buffers) + 1
        created ==
            [st EXCEPT
                !.buffers = create_buffer_with_data(@, byte_len(vertices[e]), as_bytes(vertices[e]), e),
                !.calls = Append(@, [ op |-> "create_buffer_with_data", id |-> buffer_id, entity |-> e ])]
    IN [created EXCEPT !.bindings[e].vertex_attribute_buffer = buffer_id]

\* the closure body uploading only when the record has no buffer yet
ProviderBody_UploadOnce(e, st) ==
    LET buffer_id == Len(st.buffers) + 1
        created ==
            [st EXCEPT
                !.buffers = create_buffer_with_data(@, byte_len(vertices[e]), as_bytes(vertices[e]), e),
                !.calls = Append(@, [ op |-> "create_buffer_with_data", id |-> buffer_id, entity |-> e ])]
    IN IF st.bindings[e].vertex_attribute_buffer # None THEN st
       ELSE [created EXCEPT !.bindings[e].vertex_attribute_buffer = buffer_id]

\* the closure body storing the new handle only when the record had none
ProviderBody_KeepHandle(e, st) ==
    LET old == st.bindings[e].vertex_attribute_buffer
        removed ==
            IF old # None
            THEN [st EXCEPT !.buffers = remove_buffer(@, old),
                            !.calls = Append(@, [ op |-> "remove_buffer", id |-> old, entity |-> e ])]
            ELSE st
        buffer_id == Len(removed.buffers) + 1
        created ==
            [removed EXCEPT
                !.buffers = create_buffer_with_data(@, byte_len(vertices[e]), as_bytes(vertices[e]), e),
                !.calls = Append(@, [ op |-> "create_buffer_with_data", id |-> buffer_id, entity |-> e ])]
    IN IF old # None THEN created
       ELSE [created EXCEPT !.bindings[e].vertex_attribute_buffer = buffer_id]

\* the closure body of poly_line_resource_provider_system for one entity
ProviderBody(e, st) ==
    LET old == st.bindings[e].vertex_attribute_buffer
        removed ==
            IF old # None
            THEN [st EXCEPT !.buffers = remove_buffer(@, old),
                            !.calls = Append(@, [ op |-> "remove_buffer", id |-> old, entity |-> e ])]
            ELSE st
        buffer_id == Len(removed.buffers) + 1
        created ==
            [removed EXCEPT
                !.buffers = create_buffer_with_data(@, byte_len(vertices[e]), as_bytes(vertices[e]), e),
                !.calls = Append(@, [ op |-> "create_buffer_with_data", id |-> buffer_id, entity |-> e ])]
    IN [created EXCEPT !.bindings[e].vertex_attribute_buffer = buffer_id]

\* query.for_each_mut over the entities matched by Changed<PolyLine>
RECURSIVE ProviderLoop(_, _)
ProviderLoop(todo, st) ==
    IF todo = <<>> THEN st
    ELSE ProviderLoop(Tail(todo), ProviderBody(Head(todo), st))

\* a query with no Changed filter
Matched_All == Live

\* the entities matched by Query<(Entity, &PolyLine, &mut RenderPipelines), Changed<PolyLine>>
Matched == { e \in Live : changed[e] }

\* poly_line_resource_provider_system
ResourceProvider ==
    /\ phase = "update"
    /\ LET matched == InOrder(Matched)
           st == ProviderLoop(matched, [ bindings |-> bindings, buffers |-> buffers, calls |-> calls ])
       IN /\ bindings' = st.bindings
          /\ buffers' = st.buffers
          /\ calls' = st.calls
    /\ changed' = [e \in Entities |-> FALSE]
    /\ phase' = "draw"
    /\ UNCHANGED << outside_frustum, status, vertices, visible, pipelines, msaa, asset_bindings, draw, cache >>

\* ------------------------------------------------------------ Draw stage
\* the dynamic bindings of the record's own set only
CollectDynamicBindings_NoAssets(b) == b.dynamic

\* bindings.iter_dynamic_bindings() merged with the dynamic bindings of the
\* binding sets of bindings.iter_assets()
CollectDynamicBindings(b) ==
    b.dynamic \cup UNION { asset_bindings[a] : a \in b.assets }

\* the first loop's body recomputing the dynamic bindings on every pass
Specialize_Always(rp, b) ==
    [rp EXCEPT !.sample_count = msaa,
               !.vertex_buffer_layout = PolyLineLayout,
               !.dynamic_bindings = b.dynamic \cup UNION { asset_bindings[a] : a \in b.assets },
               !.dynamic_bindings_generation = b.dynamic_bindings_generation]

\* the first loop's body refreshing the sample count only on a generation miss
Specialize_CachedSampleCount(rp, b) ==
    IF rp.dynamic_bindings_generation # b.dynamic_bindings_generation
    THEN [rp EXCEPT !.sample_count = msaa,
                    !.vertex_buffer_layout = PolyLineLayout,
                    !.dynamic_bindings = b.dynamic \cup UNION { asset_bindings[a] : a \in b.assets },
                    !.dynamic_bindings_generation = b.dynamic_bindings_generation]
    ELSE [rp EXCEPT !.vertex_buffer_layout = PolyLineLayout]

\* the body of the first loop over render_pipelines.pipelines
Specialize(rp, b) ==
    LET base == [rp EXCEPT !.sample_count = msaa, !.vertex_buffer_layout = PolyLineLayout]
    IN IF rp.dynamic_bindings_generation # b.dynamic_bindings_generation
       THEN [base EXCEPT !.dynamic_bindings = CollectDynamicBindings(b),
                         !.dynamic_bindings_generation = b.dynamic_bindings_generation]
       ELSE base

\* the generation check of the first loop misses on some pipeline
Misses(rps, b) ==
    \E i \in 1 .. Len(rps) : rps[i].dynamic_bindings_generation # b.dynamic_bindings_generation

\* the points at which one pass of the second loop can panic
FailPoints == { "none", "set_pipeline", "set_bind_groups", "set_vertex_buffers" }

\* the second loop's body leaving early when there is no segment to draw
DrawPipeline_EarlyExit(e, rp, failing, trap) ==
    LET fail == IF failing.entity = e THEN failing.point ELSE "none"
        sp == << "set_pipeline", rp.sample_count, rp.dynamic_bindings >>
        sbg == << "set_bind_groups", "record", "global" >>
        svb == << "set_vertex_buffers", bindings[e].vertex_attribute_buffer >>
    IN IF Len(vertices[e]) < 2 THEN [ commands |-> <<>>, panicked |-> FALSE ]
       ELSE IF fail = "set_pipeline" THEN [ commands |-> <<>>, panicked |-> TRUE ]
       ELSE IF fail = "set_bind_groups" THEN [ commands |-> << sp >>, panicked |-> TRUE ]
       ELSE IF fail = "set_vertex_buffers" THEN [ commands |-> << sp, sbg >>, panicked |-> TRUE ]
       ELSE [ commands |-> << sp, sbg, svb,
                              << "draw", << 0, 6 >>, << ToU32(0), InstanceEnd(vertices[e]) >> >> >>,
              panicked |-> FALSE ]

\* the body of the second loop for one pipeline: the commands it appends to
\* Draw and whether one of its unwrap()s or the subtraction panicked
DrawPipeline(e, rp, failing, trap) ==
    LET fail == IF failing.entity = e THEN failing.point ELSE "none"
        sp == << "set_pipeline", rp.sample_count, rp.dynamic_bindings >>
        sbg == << "set_bind_groups", "record", "global" >>
        svb == << "set_vertex_buffers", bindings[e].vertex_attribute_buffer >>
        len == ToUsize(Len(vertices[e]))
    IN IF fail = "set_pipeline" THEN [ commands |-> <<>>, panicked |-> TRUE ]
       ELSE IF fail = "set_bind_groups" THEN [ commands |-> << sp >>, panicked |-> TRUE ]
       ELSE IF fail = "set_vertex_buffers" THEN [ commands |-> << sp, sbg >>, panicked |-> TRUE ]
       ELSE IF SubOneUnderflows(len) /\ trap
            THEN [ commands |-> << sp, sbg, svb >>, panicked |-> TRUE ]
       ELSE [ commands |-> << sp, sbg, svb,
                              << "draw", << 0, 6 >>, << ToU32(0), InstanceEnd(vertices[e]) >> >> >>,
              panicked |-> FALSE ]

\* the second loop over render_pipelines.pipelines, from pipeline i on
RECURSIVE DrawPipelines(_, _, _, _, _)
DrawPipelines(e, rps, i, fail, trap) ==
    IF i > Len(rps) THEN [ commands |-> <<>>, panicked |-> FALSE ]
    ELSE LET one == DrawPipeline(e, rps[i], fail, trap)
         IN IF one.panicked THEN one
            ELSE LET rest == DrawPipelines(e, rps, i + 1, fail, trap)
                 IN [ commands |-> one.commands \o rest.commands, panicked |-> rest.panicked ]

\* the loop body without the visibility check
DrawBody_IgnoresVisible(e, st, fail, trap) ==
    LET rps == [i \in 1 .. Len(st.pipelines[e]) |-> Specialize(st.pipelines[e][i], bindings[e])]
        drawn == DrawPipelines(e, rps, 1, fail, trap)
    IN [ pipelines |-> [st.pipelines EXCEPT ![e] = rps],
         draw |-> [st.draw EXCEPT ![e] = @ \o drawn.commands],
         cache |-> [st.cache EXCEPT ![e] = IF Misses(st.pipelines[e], bindings[e]) THEN "miss" ELSE "hit"],
         panicked |-> drawn.panicked ]

\* the body of the loop over the query for one entity
DrawBody(e, st, fail, trap) ==
    IF ~visible[e] THEN st
    ELSE LET rps == [i \in 1 .. Len(st.pipelines[e]) |-> Specialize(st.pipelines[e][i], bindings[e])]
             drawn == DrawPipelines(e, rps, 1, fail, trap)
         IN [ pipelines |-> [st.pipelines EXCEPT ![e] = rps],
              draw |-> [st.draw EXCEPT ![e] = @ \o drawn.commands],
              cache |-> [st.cache EXCEPT ![e] = IF Misses(st.pipelines[e], bindings[e]) THEN "miss" ELSE "hit"],
              panicked |-> drawn.panicked ]

\* for ... in query.iter_mut(): a panic ends the system
RECURSIVE DrawLoop(_, _, _, _)
DrawLoop(todo, st, fail, trap) ==
    IF todo = <<>> \/ st.panicked THEN st
    ELSE DrawLoop(Tail(todo), DrawBody(Head(todo), st, fail, trap), fail, trap)

\* the first binding call of a run that returns an error, if any: the entity
\* it is made for and the call
Failures ==
    { [ entity |-> None, point |-> "none" ] }
        \cup [ entity : Entities, point : FailPoints \ { "none" } ]

\* a query with no Without<OutsideFrustum> filter
Queried_WithCulled == Live

\* the entities matched by Query<(&mut Draw, &mut RenderPipelines, &PolyLine,
\* &Visible), Without<OutsideFrustum>>
Queried == { e \in Live : ~outside_frustum[e] }

\* the draw system also releasing the buffers of the records it skips
DrawSystem_ReleasesHidden(fail, trap) ==
    /\ phase = "draw"
    /\ fail.entity # None => fail.entity \in Queried /\ visible[fail.entity]
    /\ LET st == DrawLoop(InOrder(Queried),
                          [ pipelines |-> pipelines, draw |-> draw, cache |-> cache,
                            panicked |-> FALSE ],
                          fail, trap)
           hidden == { e \in Queried : ~visible[e] /\ bindings[e].vertex_attribute_buffer # None }
       IN IF st.panicked
          THEN Abort
          ELSE /\ pipelines' = st.pipelines
               /\ draw' = st.draw
               /\ cache' = st.cache
               /\ phase' = "end"
               /\ buffers' = [id \in DOMAIN buffers |->
                                IF \E e \in hidden : bindings[e].vertex_attribute_buffer = id
                                THEN [ live |-> FALSE, size |-> 0, data |-> <<>>,
                                       owner |-> buffers[id].owner ]
                                ELSE buffers[id]]
               /\ bindings' = [e \in Entities |->
                                IF e \in hidden
                                THEN [bindings[e] EXCEPT !.vertex_attribute_buffer = None]
                                ELSE bindings[e]]
               /\ UNCHANGED << outside_frustum, status, vertices, changed, visible, msaa,
                               asset_bindings, calls >>

\* poly_line_draw_render_pipelines_system; fail is the first binding call that
\* returns an error, trap whether the build checks arithmetic overflow
DrawSystem(fail, trap) ==
    /\ phase = "draw"
    /\ fail.entity # None => fail.entity \in Queried /\ visible[fail.entity]
    /\ LET st == DrawLoop(InOrder(Queried),
                          [ pipelines |-> pipelines, draw |-> draw, cache |-> cache,
                            panicked |-> FALSE ],
                          fail, trap)
       IN IF st.panicked
          THEN Abort
          ELSE /\ pipelines' = st.pipelines
               /\ draw' = st.draw
               /\ cache' = st.cache
               /\ phase' = "end"
               /\ UNCHANGED << outside_frustum, status, vertices, changed, visible, bindings, msaa,
                               asset_bindings, buffers, calls >>

\* the frame ends: the render commands are submitted and cleared
EndFrame ==
    /\ phase = "end"
    /\ phase' = "update"
    /\ calls' = <<>>
    /\ draw' = [e \in Entities |-> <<>>]
    /\ cache' = [e \in Entities |-> "none"]
    /\ UNCHANGED << outside_frustum, status, vertices, changed, visible, bindings, pipelines, msaa,
                    asset_bindings, buffers >>

\* the frame's two systems and its end
Frame ==
    \/ ResourceProvider
    \/ \E fail \in Failures, trap \in BOOLEAN : DrawSystem(fail, trap)
    \/ EndFrame

\* the application spawns, despawns, mutates and hides poly-lines; the sample
\* count and the binding sets stay as they are
Next ==
    \/ \E e \in Entities, vs \in PointLists : Spawn(e, vs, {})
    \/ \E e \in Entities : Despawn(e)
    \/ \E e \in Entities, vs \in PointLists : SetVertices(e, vs)
    \/ \E e \in Entities, b \in BOOLEAN : SetVisible(e, b)
    \/ Frame

Spec == Init /\ [][Next]_vars

\* the point list of the poly-lines whose bindings change
SegmentList == Alternating(PointA, PointB, 2)

\* the poly-lines whose bindings change
CacheEntities == { 1 }

\* the application spawns and hides poly-lines of one segment; the sample
\* count, the records' binding sets and the assets' binding sets change
NextCache ==
    \/ \E e \in CacheEntities, assets \in SUBSET Assets : Spawn(e, SegmentList, assets)
    \/ \E e \in CacheEntities, b \in BOOLEAN : SetVisible(e, b)
    \/ \E e \in CacheEntities, b \in BOOLEAN : SetOutsideFrustum(e, b)
    \/ \E s \in MsaaSamples : SetMsaa(s)
    \/ \E e \in CacheEntities, names \in SUBSET RecordNames : SetBinding(e, names)
    \/ \E a \in Assets, names \in SUBSET AssetNames : SetAssetBinding(a, names)
    \/ Frame

SpecCache == Init /\ [][NextCache]_vars

\* as Next, and poly-lines are also spawned after the resource provider ran
NextLate ==
    \/ Next
    \/ \E e \in Entities, vs \in PointLists : SpawnLate(e, vs)

SpecLate == Init /\ [][NextLate]_vars

\* ------------------------------------------------------------ properties
IsDraw(c) == c[1] = "draw"
DrawCalls(e) == { i \in DOMAIN draw[e] : IsDraw(draw[e][i]) }
\* the calls of this frame made for entity e, in call order
CallsFor(cs, e) == LET ForE(c) == c.entity = e IN SelectSeq(cs, ForE)
\* the step taken by the resource provider / by a run of the draw system that
\* returns
ProviderStep == phase = "update" /\ phase' = "draw"
DrawStep == phase = "draw" /\ phase' = "end"
\* data holds exactly the points of vs, twelve bytes each, coordinates as
\* little-endian words
Mirrors(data, vs) ==
    /\ Len(data) = 12 * Len(vs)
    /\ \A i \in 1 .. Len(vs), k \in 1 .. 3 :
          LET o == 12 * (i - 1) + 4 * (k - 1)
          IN data[o + 1] + 256 * data[o + 2] + 65536 * data[o + 3] + 16777216 * data[o + 4]
                = vs[i][k]
LiveBuffersOf(e) == { id \in DOMAIN buffers : buffers[id].live /\ buffers[id].owner = e }

\* C1: for a record with 0 or 1 points, no draw call with a nonzero instance
\* count is issued (the count is max(len - 1, 0)).
C1_NoInstancesBelowTwoPoints ==
    \A e \in Live : Len(vertices[e]) <= 1 =>
        \A i \in DrawCalls(e) : draw[e][i][3] = << ToU32(0), ToU32(0) >>

\* C2: for a record with N >= 2 points, every draw call issued for it has
\* vertex range 0..6 and instance range 0..N-1.
C2_InstancesAreSegments ==
    \A e \in Live : Len(vertices[e]) >= 2 =>
        \A i \in DrawCalls(e) :
            draw[e][i] = << "draw", << 0, 6 >>, << ToU32(0), ToU32(Len(vertices[e]) - 1) >> >>
C2_Witness ==
    \E e \in Live : Len(vertices[e]) = 3 /\ DrawCalls(e) # {}

\* C3: for each record flagged as changed, the resource provider requests
\* exactly one creation, preceded by exactly one release of the old buffer if
\* the record had one, and no release otherwise.
C3_ReleaseThenCreate ==
    [][ProviderStep =>
        \A e \in Live : changed[e] =>
            LET old == bindings[e].vertex_attribute_buffer
                new == bindings'[e].vertex_attribute_buffer
                mine == CallsFor(calls', e)
            IN IF old # None
               THEN mine = << [ op |-> "remove_buffer", id |-> old, entity |-> e ],
                              [ op |-> "create_buffer_with_data", id |-> new, entity |-> e ] >>
               ELSE mine = << [ op |-> "create_buffer_with_data", id |-> new, entity |-> e ] >>
    ]_vars
C3_Witness ==
    /\ phase = "draw"
    /\ \E e \in Live :
          /\ Len(CallsFor(calls, e)) = 2
          /\ CallsFor(calls, e)[1].op = "remove_buffer"
          /\ ~buffers[CallsFor(calls, e)[1].id].live

\* C4: at most one live buffer created for a given record exists at any time.
C4_OneLiveBufferPerRecord ==
    \A e \in Entities : Cardinality(LiveBuffersOf(e)) <= 1
C4_Witness ==
    \E e \in Live :
        /\ Cardinality(LiveBuffersOf(e)) = 1
        /\ \E id \in DOMAIN buffers : ~buffers[id].live /\ buffers[id].owner = e

\* C5: no live buffer belongs to a record whose entity has been destroyed.
C5_NoBufferOutlivesRecord ==
    \A id \in DOMAIN buffers : buffers[id].live => status[buffers[id].owner] = "live"

\* C6: every buffer created for a record has byte size points.len() * 12 and
\* holds the serialization of the record's whole points list.
C6_BufferMirrorsPoints ==
    phase = "draw" =>
        \A i \in DOMAIN calls : calls[i].op = "create_buffer_with_data" =>
            /\ buffers[calls[i].id].size = Len(vertices[calls[i].entity]) * 12
            /\ Mirrors(buffers[calls[i].id].data, vertices[calls[i].entity])
C6_Witness ==
    /\ phase = "draw"
    /\ \E i \in DOMAIN calls :
          /\ calls[i].op = "create_buffer_with_data"
          /\ vertices[calls[i].entity] = <<>>
          /\ buffers[calls[i].id].size = 0
    /\ \E i \in DOMAIN calls :
          /\ calls[i].op = "create_buffer_with_data"
          /\ Len(vertices[calls[i].entity]) = 3
          /\ buffers[calls[i].id].size = 36

C8_CacheHitLeavesBindings ==
    [][DrawStep =>
        \A e \in Live : visible[e] =>
            \A i \in DOMAIN pipelines[e] :
                pipelines[e][i].dynamic_bindings_generation = bindings[e].dynamic_bindings_generation
                    => /\ pipelines'[e][i].dynamic_bindings = pipelines[e][i].dynamic_bindings
                       /\ cache'[e] # "miss"
    ]_vars
C8_Witness ==
    /\ phase = "end"
    /\ \E e \in Live :
          /\ cache[e] = "hit"
          /\ pipelines[e][1].dynamic_bindings # CollectDynamicBindings(bindings[e])

\* the dynamic binding names present in the record's binding set or in an
\* asset binding set reachable from it
CurrentDynamicNames(e) ==
    { n \in RecordNames \cup AssetNames :
        \/ n \in bindings[e].dynamic
        \/ \E a \in bindings[e].assets : n \in asset_bindings[a] }

\* C9: a pipeline instance whose cached generation differs from the live one
\* when the draw system processes it gets every current dynamic binding name
\* and the live generation.
C9_CacheMissRecomputes ==
    [][DrawStep =>
        \A e \in Live : visible[e] /\ cache'[e] # "none" =>
            \A i \in DOMAIN pipelines[e] :
                pipelines[e][i].dynamic_bindings_generation # bindings[e].dynamic_bindings_generation
                    => /\ pipelines'[e][i].dynamic_bindings = CurrentDynamicNames(e)
                       /\ pipelines'[e][i].dynamic_bindings_generation
                             = bindings[e].dynamic_bindings_generation
    ]_vars
C9_Witness ==
    /\ phase = "end"
    /\ \E e \in Live :
          /\ cache[e] = "miss"
          /\ pipelines[e][1].dynamic_bindings_generation >= 1
          /\ pipelines[e][1].dynamic_bindings = RecordNames \cup AssetNames

\* C10: whenever a pipeline instance's cached generation equals the live
\* generation, its dynamic_bindings equals the current set of dynamic names.
C10_EqualGenerationIsFresh ==
    \A e \in Live : \A i \in DOMAIN pipelines[e] :
        pipelines[e][i].dynamic_bindings_generation = bindings[e].dynamic_bindings_generation
            => pipelines[e][i].dynamic_bindings = CurrentDynamicNames(e)

\* C11: for a record that is not visible or is culled as outside the frustum,
\* the draw system appends no pipeline bind, no resource-set bind, no
\* vertex-buffer bind and no draw call, whether or not it has a buffer.
C11_HiddenRecordsGetNoCommands ==
    \A e \in Live : ~visible[e] \/ outside_frustum[e] => draw[e] = <<>>
C11_Witness ==
    /\ phase = "end"
    /\ \E e \in Live :
          /\ ~visible[e]
          /\ bindings[e].vertex_attribute_buffer # None
          /\ pipelines[e][1].dynamic_bindings_generation # NeverSpecialized
          /\ draw[e] = <<>>

\* C12: a record whose change flag is not set is not touched by the resource
\* provider: no release and no creation is requested for it and its buffer
\* handle stays as it was.
C12_UnchangedRecordsUntouched ==
    [][ProviderStep =>
        \A e \in Live : ~changed[e] =>
            /\ CallsFor(calls', e) = <<>>
            /\ bindings'[e].vertex_attribute_buffer = bindings[e].vertex_attribute_buffer
            /\ LiveBuffersOf(e)' = LiveBuffersOf(e)
    ]_vars
C12_Witness ==
    /\ phase = "draw"
    /\ calls # <<>>
    /\ \E e \in Live :
          /\ CallsFor(calls, e) = <<>>
          /\ bindings[e].vertex_attribute_buffer # None
          /\ buffers[bindings[e].vertex_attribute_buffer].live

\* the visible, non-culled records for which no draw call was appended
Undrawn(d) == { e \in Queried : visible[e] /\ \A i \in DOMAIN d[e] : ~IsDraw(d[e][i]) }

\* C13: a failing pipeline, resource-set or vertex-buffer bind skips only that
\* record's draw: the draw system returns, and every other visible record
\* is drawn in the same frame.
C13_BindFailureSkipsOneRecord ==
    [][phase = "draw" /\ phase' # "draw"
          /\ (\A e \in Queried : visible[e] => vertices[e] # <<>>)
        => /\ phase' = "end"
           /\ Cardinality(Undrawn(draw')) <= 1
    ]_vars

\* C14: a record that holds no buffer gets no draw call.
C14_NoBufferNoDraw ==
    \A e \in Live : bindings[e].vertex_attribute_buffer = None => DrawCalls(e) = {}

\* C15 as stated: at the end of every draw phase the sample_count of every
\* pipeline instance of every record equals the current sample count.
C15_SampleCountAlwaysCurrent ==
    phase = "end" =>
        \A e \in Live : \A i \in DOMAIN pipelines[e] : pipelines[e][i].sample_count = msaa

\* C15 amended: at the end of every draw phase the sample_count of every
\* pipeline instance of every visible, non-culled record equals the current
\* sample count.
C15_SampleCountCurrentWhenDrawn ==
    phase = "end" =>
        \A e \in Queried : visible[e] =>
            \A i \in DOMAIN pipelines[e] : pipelines[e][i].sample_count = msaa
C15_Witness ==
    /\ phase = "end"
    /\ msaa # DefaultSampleCount
    /\ \E e \in Queried :
          /\ visible[e]
          /\ cache[e] = "hit"
          /\ pipelines[e][1].sample_count = msaa

\* C16: for every visible record and each of its pipeline instances the draw
\* system appends, in this order, the pipeline bind, the bind of the record's
\* and the global resource sets, the vertex-buffer bind and one draw call with
\* vertex range 0..6, also when the record has fewer than 2 points.
C16_BindThenDraw ==
    phase = "end" =>
        \A e \in Queried : visible[e] =>
            /\ Len(draw[e]) = 4 * Len(pipelines[e])
            /\ \A i \in DOMAIN pipelines[e] :
                  /\ draw[e][4 * i - 3] = << "set_pipeline", pipelines[e][i].sample_count,
                                             pipelines[e][i].dynamic_bindings >>
                  /\ draw[e][4 * i - 2] = << "set_bind_groups", "record", "global" >>
                  /\ draw[e][4 * i - 1] = << "set_vertex_buffers", bindings[e].vertex_attribute_buffer >>
                  /\ draw[e][4 * i][1] = "draw"
                  /\ draw[e][4 * i][2] = << 0, 6 >>
C16_Witness ==
    /\ phase = "end"
    /\ \E e \in Queried : visible[e] /\ Len(vertices[e]) = 1 /\ Len(draw[e]) = 4
    /\ \E e \in Queried : visible[e] /\ Len(vertices[e]) = 3 /\ Len(draw[e]) = 4

\* C17: a run of the draw system creates and releases no buffer and changes no
\* record's binding set (buffer handle, generation); buffers and the handles
\* of existing records change only in a step of the resource provider.
C17_OnlyProviderTouchesBuffers ==
    [][/\ DrawStep => buffers' = buffers /\ bindings' = bindings /\ calls' = calls
       /\ buffers' # buffers /\ phase' # "crashed" => ProviderStep
       /\ \A e \in Entities :
             /\ status[e] = "live" /\ status'[e] = "live"
             /\ bindings'[e].vertex_attribute_buffer # bindings[e].vertex_attribute_buffer
             => ProviderStep
    ]_vars
C17_Witness ==
    /\ phase = "end"
    /\ \E e \in Queried :
          /\ ~visible[e]
          /\ bindings[e].vertex_attribute_buffer # None
          /\ buffers[bindings[e].vertex_attribute_buffer].live
    /\ \E e \in Queried : DrawCalls(e) # {}

\* instances 0 .. end-1 read the two attributes of the layout inside a buffer
\* of the given size
InstancesInside(end, size) ==
    \/ end = ToU32(0)
    \/ /\ \A k \in 1 .. U32Limbs - 1 : end[k] = 0
       /\ \A a \in DOMAIN PolyLineLayout.attributes :
             PolyLineLayout.stride * (end[U32Limbs] - 1)
                 + PolyLineLayout.attributes[a].offset + SizeOfVec3 <= size

\* C18: every instance of every draw call issued for a record reads inside
\* the record's uploaded buffer.
C18_InstancesReadInsideBuffer ==
    \A e \in Live : \A i \in DrawCalls(e) :
        bindings[e].vertex_attribute_buffer # None =>
            InstancesInside(draw[e][i][3][2], buffers[bindings[e].vertex_attribute_buffer].size)

\* C19: the handle stored in a record, if present, refers to a buffer that is
\* created and not released; once a record has a buffer its handle is never
\* None again while the record exists.
C19_NoDanglingHandle ==
    [][/\ \A e \in Entities :
             status'[e] = "live" /\ bindings'[e].vertex_attribute_buffer # None
             => /\ bindings'[e].vertex_attribute_buffer \in DOMAIN buffers'
                /\ buffers'[bindings'[e].vertex_attribute_buffer].live
       /\ \A e \in Entities :
             /\ status[e] = "live" /\ status'[e] = "live"
             /\ bindings[e].vertex_attribute_buffer # None
             => bindings'[e].vertex_attribute_buffer # None
    ]_vars
C19_Witness ==
    /\ phase = "end"
    /\ \E e \in Live :
          /\ bindings[e].vertex_attribute_buffer > 1
          /\ buffers[bindings[e].vertex_attribute_buffer].live
          /\ \E id \in DOMAIN buffers : ~buffers[id].live

\* C20: a run of the draw system leaves the pipeline instances of a record
\* that is not visible as they were, whatever the sample count and the
\* generation are.
C20_HiddenRecordsKeepSpecialization ==
    [][DrawStep => \A e \in Live : ~visible[e] => pipelines'[e] = pipelines[e]]_vars
C20_Witness ==
    /\ phase = "end"
    /\ \E e \in Live :
          /\ ~visible[e]
          /\ pipelines[e][1].sample_count # msaa
          /\ pipelines[e][1].vertex_buffer_layout = PolyLineLayout
          /\ pipelines[e][1].dynamic_bindings_generation # bindings[e].dynamic_bindings_generation
====
